---- MODULE Spec2Model ----
(***************************************************************************)
(* void-tracker: the habit store (src/src/stores/useHabitStore.ts), the    *)
(* detail screen's streak computations (src/app/settings.tsx), the         *)
(* sparkline card (src/unnamed/part_005) and the focus timer               *)
(* (src/app/focus.tsx).                                                    *)
(*                                                                         *)
(* Time.  A JavaScript Date is modelled by its local wall-clock reading    *)
(* [day, hour]: day is the local calendar day (the value getDateKey        *)
(* formats as YYYY-MM-DD, an integer day number here) and hour the local   *)
(* hour of that day.  getTime is the instant in hours since the epoch      *)
(* (the source's milliseconds, in units of one hour); it depends on the    *)
(* device's time zone, `zone`: its offset from UTC and one change of the   *)
(* offset by dstShift hours at 02:00 local time of day dstDay.             *)
(***************************************************************************)
EXTENDS Integers, FiniteSets, Sequences, TLC

VARIABLES
    zone,            \* the device's time zone [offset, dstDay, dstShift]
    now,             \* the wall clock, new Date(): [day, hour]
    dbHabits,        \* rows of table habits
    dbLogs,          \* rows of table logs
    habits,          \* store state `habits` (HabitWithStatus of the last load)
    viewId,          \* detail screen route parameter `id`
    details,         \* detail screen state `details`: {} (null) or {result}
    sparklineHabits, \* dashboard state `sparklineHabits`
    isLoading,       \* store state `isLoading`
    error,           \* store state `error`: {} (null) or {message}
    version,         \* store state `version`
    calls,           \* the store calls in flight, by slot
    history,         \* history variable: the state each store call started in
    focus            \* the focus screen's state, its timeout and its effects

screenVars == <<viewId, details, sparklineHabits>>
storeVars == <<habits, isLoading, error, version>>
habitVars == <<zone, now, dbHabits, dbLogs, habits, viewId, details,
               sparklineHabits, isLoading, error, version, calls, history>>
vars == <<zone, now, dbHabits, dbLogs, habits, viewId, details, sparklineHabits,
          isLoading, error, version, calls, history, focus>>

-----------------------------------------------------------------------------
(* Bounds of the model *)

Today0 == 400        \* the day the engine's inputs take as today
MaxAge == 2          \* short inputs: creation day in Today0-MaxAge .. Today0+1
LongSlack == 1       \* long inputs: ages within LongSlack of the 30/365 caps
MaxVersion == 3      \* store calls start while version is below MaxVersion
MaxTicks == 1        \* midnights the store's clock passes

(* Program constants *)

HoursPerDay == 24    \* 1000 * 60 * 60 * 24 ms, in hours
PositiveWalk == 365  \* for (let i = 0; i < 365; i++)
NegativeWalk == 365  \* for (let i = 0; i <= 365; i++)
ScorePeriod == 30    \* Math.min(30, ...)
SparklineLen == 7    \* Array.from({ length: 7 }, ...)

SecondsPerMinute == 60  \* selectedMinutes * 60
InitialMinutes == 30    \* useState(30)

HabitTypes == {"positive", "negative"}

\* The focus screen after mount: useState's initial values, no timeout
\* scheduled, the mount run of the effects done.
FocusMounted ==
    [selectedMinutes |-> InitialMinutes,
     remainingSeconds |-> InitialMinutes * SecondsPerMinute,
     totalSeconds |-> InitialMinutes * SecondsPerMinute,
     isRunning |-> FALSE, isFocusMode |-> FALSE, isPaused |-> FALSE,
     timer |-> FALSE, timerEffectDue |-> FALSE, presetEffectDue |-> FALSE]
Hours == {0, 12, 23}

Min(a, b) == IF a < b THEN a ELSE b
Max(a, b) == IF a > b THEN a ELSE b

-----------------------------------------------------------------------------
(* JavaScript Date *)

\* The zone's offset from UTC, in hours, at a local wall-clock reading.
UtcOffset(date) ==
    zone.offset +
    (IF date.day > zone.dstDay \/ (date.day = zone.dstDay /\ date.hour >= 3)
     THEN zone.dstShift ELSE 0)

\* date.getTime(), in hours.
getTime(date) == HoursPerDay * date.day + date.hour - UtcOffset(date)

\* new Date(d.getFullYear(), d.getMonth(), d.getDate()): local midnight.
StartOfDay(date) == [day |-> date.day, hour |-> 0]

\* d = new Date(date); d.setDate(d.getDate() + n)
setDate(date, n) == [date EXCEPT !.day = @ + n]

\* getDateKey(date) / getTodayDateKey(): the local calendar day.
getDateKey(date) == date.day
getTodayDateKey == getDateKey(now)

\* Date keys: a positive key is the YYYY-MM-DD string of that day. A stored
\* key that is no such string is either unparseable ("n/a", "2024-13-45")
\* or the full ISO date-time of a day ("2024-03-10T00:00:00.000Z").
Unparseable == 0
Timestamp(day) == 0 - day
WellFormed(dateKey) == dateKey > 0

\* getTime() of an Invalid Date
NaN == 0 - 1

\* new Date(dateKey).getTime(): a date-only string is parsed as UTC midnight,
\* an ISO date-time as its instant, anything else as an Invalid Date.
parseDateKey(dateKey) ==
    IF dateKey = Unparseable THEN NaN
    ELSE IF dateKey < 0 THEN HoursPerDay * (0 - dateKey)
    ELSE HoursPerDay * dateKey

\* a >= b and a <= b on Dates: false when either is an Invalid Date.
DateGeq(a, b) == a # NaN /\ b # NaN /\ a >= b
DateLeq(a, b) == a # NaN /\ b # NaN /\ a <= b

\* Math.round(100 * num / den) with halves rounded down.
RoundPercentHalfDown(num, den) == (200 * num + den - 1) \div (2 * den)

\* Math.round(100 * num / den) for den > 0: halves round towards +infinity.
RoundPercent(num, den) == (200 * num + den) \div (2 * den)

\* logs.some(l => l.dateKey === key)
hasLogOn(logs, key) == \E l \in logs : l.dateKey = key

-----------------------------------------------------------------------------
(* Detail screen: calculateStreak and longestStreak (src/app/settings.tsx) *)

\* createdAtStartOfDay of a habit
createdAtStartOfDay(habit) == StartOfDay(habit.createdAt)

\* A for loop over i = lo..hi, folded by halving; st.done records a break.
RECURSIVE ForLoop(_, _, _, _)
ForLoop(Step(_, _), lo, hi, st) ==
    IF lo > hi \/ st.done THEN st
    ELSE IF lo = hi THEN Step(lo, st)
    ELSE LET mid == (lo + hi) \div 2
             left == ForLoop(Step, lo, mid, st)
         IN  IF left.done THEN left ELSE ForLoop(Step, mid + 1, hi, left)

\* A mutant: a logged day is counted before the walk stops.
negativeStepCountsLapse(logs, habit, i, st) ==
    LET checkDate == setDate(now, -i) IN
    IF getTime(checkDate) < getTime(createdAtStartOfDay(habit))
    THEN [st EXCEPT !.done = TRUE]
    ELSE IF hasLogOn(logs, getDateKey(checkDate))
         THEN [st EXCEPT !.streak = @ + 1, !.done = TRUE]
         ELSE [st EXCEPT !.streak = @ + 1]

\* A mutant: the walk does not stop at the creation day.
negativeStepNoCreation(logs, habit, i, st) ==
    LET checkDate == setDate(now, -i) IN
    IF hasLogOn(logs, getDateKey(checkDate))
    THEN [st EXCEPT !.done = TRUE]
    ELSE [st EXCEPT !.streak = @ + 1]

\* Iteration i of the negative branch's loop.
negativeStep(logs, habit, i, st) ==
    LET checkDate == setDate(now, -i) IN
    IF getTime(checkDate) < getTime(createdAtStartOfDay(habit))
    THEN [st EXCEPT !.done = TRUE]
    ELSE IF hasLogOn(logs, getDateKey(checkDate))
         THEN [st EXCEPT !.done = TRUE]
         ELSE [st EXCEPT !.streak = @ + 1]

\* A mutant: today without a log ends the walk like any other day.
positiveStepNoSkip(logs, habit, i, st) ==
    LET checkDate == setDate(now, -i) IN
    IF getTime(checkDate) < getTime(createdAtStartOfDay(habit))
    THEN [st EXCEPT !.done = TRUE]
    ELSE IF hasLogOn(logs, getDateKey(checkDate))
         THEN [st EXCEPT !.streak = @ + 1]
         ELSE [st EXCEPT !.done = TRUE]

\* A mutant: any day without a log is skipped, not only today.
positiveStepSkipsAll(logs, habit, i, st) ==
    LET checkDate == setDate(now, -i) IN
    IF getTime(checkDate) < getTime(createdAtStartOfDay(habit))
    THEN [st EXCEPT !.done = TRUE]
    ELSE IF hasLogOn(logs, getDateKey(checkDate))
         THEN [st EXCEPT !.streak = @ + 1]
         ELSE st

\* Iteration i of the positive branch's loop.
positiveStep(logs, habit, i, st) ==
    LET checkDate == setDate(now, -i) IN
    IF getTime(checkDate) < getTime(createdAtStartOfDay(habit))
    THEN [st EXCEPT !.done = TRUE]
    ELSE IF hasLogOn(logs, getDateKey(checkDate))
         THEN [st EXCEPT !.streak = @ + 1]
         ELSE IF i > 0 THEN [st EXCEPT !.done = TRUE]
         ELSE st

\* calculateStreak: det is `details` ({} for null), hab the habit found in the
\* store's list ({} when not found).
calculateStreak(det, hab) ==
    IF det = {} \/ hab = {} THEN 0
    ELSE LET d == CHOOSE x \in det : TRUE
             habit == CHOOSE x \in hab : TRUE
             st0 == [streak |-> 0, done |-> FALSE]
         IN  IF habit.type = "negative"
             THEN ForLoop(LAMBDA i, st : negativeStep(d.logs, habit, i, st),
                          0, NegativeWalk, st0).streak
             ELSE ForLoop(LAMBDA i, st : positiveStep(d.logs, habit, i, st),
                          0, PositiveWalk - 1, st0).streak

\* longestStreak's loop body with the branches of the two habit types swapped.
longestStepSwapped(logs, habit, i, st) ==
    LET checkDate == setDate(createdAtStartOfDay(habit), i)
        hasLog == hasLogOn(logs, getDateKey(checkDate))
        counts == IF habit.type = "negative" THEN hasLog ELSE ~hasLog
    IN  IF counts
        THEN [st EXCEPT !.currentStreak = @ + 1,
                        !.maxStreak = Max(@, st.currentStreak + 1)]
        ELSE [st EXCEPT !.currentStreak = 0]

\* Iteration i of longestStreak's scan (no break: done stays FALSE).
longestStep(logs, habit, i, st) ==
    LET checkDate == setDate(createdAtStartOfDay(habit), i)
        hasLog == hasLogOn(logs, getDateKey(checkDate))
        counts == IF habit.type = "negative" THEN ~hasLog ELSE hasLog
    IN  IF counts
        THEN [st EXCEPT !.currentStreak = @ + 1,
                        !.maxStreak = Max(@, st.currentStreak + 1)]
        ELSE [st EXCEPT !.currentStreak = 0]

longestStreak(det, hab) ==
    IF det = {} \/ hab = {} THEN 0
    ELSE LET d == CHOOSE x \in det : TRUE
             habit == CHOOSE x \in hab : TRUE
             startDate == createdAtStartOfDay(habit)
             daysDiff == (getTime(now) - getTime(startDate)) \div HoursPerDay
         IN  ForLoop(LAMBDA i, st : longestStep(d.logs, habit, i, st), 0, daysDiff,
                     [currentStreak |-> 0, maxStreak |-> 0, done |-> FALSE]).maxStreak

-----------------------------------------------------------------------------
(* Store: getHabitDetails (src/src/stores/useHabitStore.ts) *)

\* Iteration k of getHabitDetails' while (true) walk from `start`.
storeStreakStep(logs, start, k, st) ==
    IF hasLogOn(logs, getDateKey(setDate(start, -k)))
    THEN [st EXCEPT !.currentStreak = @ + 1]
    ELSE [st EXCEPT !.done = TRUE]

\* The walk leaves at the first day without a log: after at most one
\* iteration per log, and one more.
storeCurrentStreak(habitLogs) ==
    LET completedToday == hasLogOn(habitLogs, getTodayDateKey)
        completedYesterday == hasLogOn(habitLogs, getDateKey(setDate(now, -1)))
        start == IF completedToday THEN now ELSE setDate(now, -1)
    IN  IF completedToday \/ completedYesterday
        THEN ForLoop(LAMBDA k, st : storeStreakStep(habitLogs, start, k, st),
                     0, Cardinality(habitLogs),
                     [currentStreak |-> 0, done |-> FALSE]).currentStreak
        ELSE 0

\* periodDays padded to the full 30 days whatever the habit's age.
periodDaysPadded(hab) == ScorePeriod

\* periodDays, from the habit found in the store's list ({} when not found).
periodDaysOf(hab) ==
    LET todayStartOfDay == StartOfDay(now)
        daysSinceCreation ==
            IF hab = {} THEN ScorePeriod
            ELSE LET habit == CHOOSE x \in hab : TRUE IN
                 ((getTime(todayStartOfDay) - getTime(createdAtStartOfDay(habit)))
                     \div HoursPerDay) + 1
    IN  Min(ScorePeriod, Max(1, daysSinceCreation))

\* effectiveStart, as an instant.
effectiveStartOf(hab) ==
    LET periodStart == setDate(StartOfDay(now), 1 - periodDaysOf(hab))
    IN  IF hab # {} /\ getTime(createdAtStartOfDay(CHOOSE x \in hab : TRUE))
                          > getTime(periodStart)
        THEN getTime(createdAtStartOfDay(CHOOSE x \in hab : TRUE))
        ELSE getTime(periodStart)

logsInPeriodOf(habitLogs, hab) ==
    Cardinality({l \in habitLogs :
        /\ DateGeq(parseDateKey(l.dateKey), effectiveStartOf(hab))
        /\ DateLeq(parseDateKey(l.dateKey), getTime(StartOfDay(now)))})

\* consistencyScore with the abstinence branch taken for every habit.
consistencyScoreOfAbstinence(habitLogs, hab) ==
    LET periodDays == periodDaysOf(hab)
    IN  RoundPercent(periodDays - logsInPeriodOf(habitLogs, hab), periodDays)

consistencyScoreOf(habitLogs, hab) ==
    LET periodDays == periodDaysOf(hab)
        logsInPeriod == logsInPeriodOf(habitLogs, hab)
        isNegative == hab # {} /\ (CHOOSE x \in hab : TRUE).type = "negative"
    IN  IF isNegative
        THEN RoundPercent(periodDays - logsInPeriod, periodDays)
        ELSE RoundPercent(logsInPeriod, periodDays)

\* The result of getHabitDetails(habitId) on rows `logs` of table logs and the
\* store's list `list`.
habitDetailsOf(logs, list, habitId) ==
    LET habitLogs == {l \in logs : l.habitId = habitId}
        hab == {h \in list : h.id = habitId}
    IN  [logs |-> habitLogs,
         currentStreak |-> storeCurrentStreak(habitLogs),
         consistencyScore |-> consistencyScoreOf(habitLogs, hab),
         totalCompletions |-> Cardinality(habitLogs)]

getHabitDetails(habitId) == habitDetailsOf(dbLogs, habits, habitId)

-----------------------------------------------------------------------------
(* Store: getHabitsWithSparkline; card: calculateStreak (src/unnamed/part_005) *)

\* sparklineOf with the creation day itself tagged as before creation.
sparklineOfLateCreation(logs, habit) ==
    [i \in 1..SparklineLen |->
        LET date == setDate(now, -(SparklineLen - i))
            dayStart == StartOfDay(date)
        IN  [hasLog |-> \E l \in logs :
                            l.habitId = habit.id /\ l.dateKey = getDateKey(date),
             isBeforeCreation |->
                 getTime(dayStart) <= getTime(createdAtStartOfDay(habit))]]

\* The sparkline of one habit: a sequence of 7 entries, oldest first.
sparklineOf(logs, habit) ==
    [i \in 1..SparklineLen |->
        LET date == setDate(now, -(SparklineLen - i))
            dayStart == StartOfDay(date)
        IN  [hasLog |-> \E l \in logs :
                            l.habitId = habit.id /\ l.dateKey = getDateKey(date),
             isBeforeCreation |->
                 getTime(dayStart) < getTime(createdAtStartOfDay(habit))]]

\* The result of getHabitsWithSparkline on the tables.
habitsWithSparklineOf(habitRows, logs) ==
    {[id |-> h.id, type |-> h.type, createdAt |-> h.createdAt,
      isCompletedToday |-> \E l \in logs :
                               l.habitId = h.id /\ l.dateKey = getTodayDateKey,
      sparkline |-> sparklineOf(logs, h)] : h \in {r \in habitRows : ~r.archived}}

\* The card's loops, from index i (1-based) downwards.
RECURSIVE cardNegativeWalk(_, _, _)
cardNegativeWalk(sparkline, i, streak) ==
    IF i < 1 THEN streak
    ELSE IF sparkline[i].isBeforeCreation THEN cardNegativeWalk(sparkline, i - 1, streak)
    ELSE IF ~sparkline[i].hasLog THEN cardNegativeWalk(sparkline, i - 1, streak + 1)
    ELSE streak

RECURSIVE cardPositiveWalk(_, _, _)
cardPositiveWalk(sparkline, i, streak) ==
    IF i < 1 THEN streak
    ELSE IF sparkline[i].isBeforeCreation THEN cardPositiveWalk(sparkline, i - 1, streak)
    ELSE IF sparkline[i].hasLog THEN cardPositiveWalk(sparkline, i - 1, streak + 1)
    ELSE IF i = Len(sparkline) THEN cardPositiveWalk(sparkline, i - 1, streak)
    ELSE streak

\* cardCalculateStreak with the positive loop for both habit types.
cardCalculateStreakOneLoop(type, sparkline) ==
    cardPositiveWalk(sparkline, Len(sparkline), 0)

cardCalculateStreak(type, sparkline) ==
    IF type = "negative"
    THEN cardNegativeWalk(sparkline, Len(sparkline), 0)
    ELSE cardPositiveWalk(sparkline, Len(sparkline), 0)

-----------------------------------------------------------------------------
(* Screens *)

\* The habit the detail screen finds in the store's list ({} when not found).
viewHabit == {h \in habits : h.id = viewId}

\* date.toISOString().split('T')[0]: the calendar day of the instant in UTC.
toISODateKey(date) == getTime(date) \div HoursPerDay

\* selectedRange '1M' | '3M' | '6M' as rangeDays
RangeDays == {30, 90, 180}

\* chartData: the inner loop j = 0..6 divides its count by ChartWindow.
ChartWindow == 7

\* completedInWindow of the chart point of `date`
completedInWindow(logs, date) ==
    Cardinality({j \in 0..(ChartWindow - 1) :
                    hasLogOn(logs, toISODateKey(setDate(date, -j)))})

\* chartData for rangeDays: the data points, first pushed first; the point
\* completedInWindow / 7 is kept as the fraction [num, den].
chartData(det, rangeDays) ==
    IF det = {} THEN <<>>
    ELSE LET d == CHOOSE x \in det : TRUE
         IN  [k \in 1..rangeDays |->
                 [num |-> completedInWindow(d.logs, setDate(now, -(rangeDays - k))),
                  den |-> ChartWindow]]

\* loadDetails of the detail screen.
loadDetails ==
    /\ details' = {getHabitDetails(viewId)}
    /\ UNCHANGED <<focus, history, zone, now, dbHabits, dbLogs, storeVars, viewId, sparklineHabits,
                   calls>>

\* loadData of the dashboard.
loadData ==
    /\ sparklineHabits' = habitsWithSparklineOf(dbHabits, dbLogs)
    /\ UNCHANGED <<focus, history, zone, now, dbHabits, dbLogs, storeVars, viewId, details,
                   calls>>

-----------------------------------------------------------------------------
(* The engine on bounded inputs: one habit, any creation day, clock and logs *)

EngineId == "h1"

Zones(d) == {[offset |-> o, dstDay |-> d, dstShift |-> s] :
                 o \in {-5, 0, 2}, s \in {-1, 0, 1}}

LongAges == ((ScorePeriod - LongSlack)..(ScorePeriod + LongSlack))
            \cup ((PositiveWalk - LongSlack)..(NegativeWalk + 1 + LongSlack))

ShortInputs ==
    {<<c, days>> : c \in (Today0 - MaxAge)..(Today0 + 1),
                   days \in SUBSET ((Today0 - MaxAge - 1)..(Today0 + 1))}

LongInputs ==
    {<<Today0 - a, days>> : a \in LongAges,
        days \in {{}} \cup {{Today0 - k} : k \in LongAges}
                      \cup {(Today0 - k)..(Today0 - e) : k \in LongAges, e \in {0, 1}}}

habitRow(id, type, createdAt) ==
    [id |-> id, type |-> type, createdAt |-> createdAt, archived |-> FALSE]

logRow(id, habitId, dateKey) == [id |-> id, habitId |-> habitId, dateKey |-> dateKey]

\* loadHabits' result on the tables: the active habits with today's status.
habitsWithStatusOf(habitRows, todayLogs) ==
    {[id |-> h.id, type |-> h.type, createdAt |-> h.createdAt,
      isCompletedToday |-> \E l \in todayLogs : l.habitId = h.id] :
        h \in {r \in habitRows : ~r.archived}}

\* The slots of the store calls in flight: the call of slot 1 and, while it
\* runs, a second tap or a reload in slot 2.
Slots == {1, 2}

\* No history is kept; a history is kept from the empty one on.
NoHistory == [on |-> FALSE, log |-> <<>>]
EmptyHistory == [on |-> TRUE, log |-> <<>>]

\* A slot with no call in flight.
Idle == [op |-> "idle", pc |-> "idle", ui |-> "", habitId |-> "", dateKey |-> 0,
         todayKey |-> 0, rows |-> {}, logs |-> {}]

\* Long inputs are drawn at noon in a zone without a change of offset.
EngineInit ==
    /\ \E in \in ShortInputs \cup LongInputs, type \in HabitTypes :
          /\ dbHabits = {habitRow(EngineId, type, [day |-> in[1], hour |-> 12])}
          /\ dbLogs = {logRow(d, EngineId, d) : d \in in[2]}
          /\ IF in \in ShortInputs
             THEN /\ now \in {[day |-> Today0, hour |-> h] : h \in Hours}
                  /\ zone \in Zones(Today0 - 1)
             ELSE /\ now = [day |-> Today0, hour |-> 12]
                  /\ zone = [offset |-> 0, dstDay |-> Today0 - 1, dstShift |-> 0]
    /\ habits = habitsWithStatusOf(dbHabits,
                                   {l \in dbLogs : l.dateKey = getTodayDateKey})
    /\ viewId = EngineId
    /\ details = {}
    /\ sparklineHabits = {}
    /\ isLoading = FALSE
    /\ error = {}
    /\ version = 1
    /\ calls = [c \in Slots |-> Idle]
    /\ history = NoHistory /\ focus = FocusMounted

EngineNext ==
    \/ loadDetails
    \/ loadData

EngineSpec == EngineInit /\ [][EngineNext]_vars

-----------------------------------------------------------------------------
(* The store on the native platform (src/src/stores/useHabitStore.ts).      *)
(* An async call runs in steps, one per await: a step is the database       *)
(* statement the call awaits together with the synchronous code that        *)
(* follows it.  Steps of different calls interleave.  SQLite runs with its  *)
(* default foreign_keys = OFF (no PRAGMA in initializeDatabase), so         *)
(* deleting a habit row deletes no log row.                                 *)

HabitIds == <<"h1", "h2">>

NoView == "none"
StartDay == Today0

\* generateId(): an id no row and no call holds.
FreshLogId ==
    LET used == {l.id : l \in dbLogs}
                \cup UNION {{l.id : l \in calls[c].logs} : c \in Slots}
    IN  CHOOSE n \in 1..(Cardinality(used) + 1) : n \notin used

UsedHabitIds ==
    {h.id : h \in dbHabits} \cup {h.id : h \in habits}
        \cup {h.id : h \in sparklineHabits} \cup {l.habitId : l \in dbLogs}
        \cup {calls[c].habitId : c \in Slots} \cup {viewId}

\* A call starts in a free slot, while the version counter is below its bound;
\* slot 2 takes a call only while the call of slot 1 is in flight.
CanStart(c) ==
    /\ calls[c].pc = "idle"
    /\ version < MaxVersion
    /\ c = 2 => calls[1].pc # "idle"

\* addHabit, archiveHabit and deleteHabit start in slot 1.
CanStartFirst(c) == c = 1 /\ CanStart(c)

\* The state a store call starts in, kept for the properties: what the call
\* was given and the tables and store state it found.
Started(call) ==
    [op |-> call.op, ui |-> call.ui, habitId |-> call.habitId,
     dateKey |-> call.dateKey, today |-> getTodayDateKey, dbHabits |-> dbHabits,
     dbLogs |-> dbLogs, habits |-> habits, version |-> version]

Start(c, call) ==
    /\ calls' = [calls EXCEPT ![c] = call]
    /\ UNCHANGED focus
    /\ history' = IF history.on
                  THEN [history EXCEPT !.log = Append(@, Started(call))]
                  ELSE history

\* toggleHabit(habitId, dateKey), called by `ui`: the select of existingLogs.
toggleHabit(c, ui, habitId, dateKey) ==
    /\ CanStart(c)
    /\ Start(c, [Idle EXCEPT !.op = "toggleHabit", !.pc = "write", !.ui = ui,
                             !.habitId = habitId, !.dateKey = dateKey,
                             !.logs = {l \in dbLogs : l.habitId = habitId
                                                      /\ l.dateKey = dateKey}])
    /\ UNCHANGED <<zone, now, dbHabits, dbLogs, storeVars, screenVars>>

\* Dashboard handleToggle(id), with the dashboard in front: toggleHabit(id)
\* acts on today's date key.
handleToggle(c) ==
    /\ viewId = NoView
    /\ \E h \in sparklineHabits : toggleHabit(c, "dashboard", h.id, getTodayDateKey)

\* The colours of the calendar's circles.
CRIMSON == "#ff4d4d"
GOLD == "#FFD700"
bioOrange == "COLORS.bioOrange"
transparent == "transparent"

\* renderCalendar's cell whose press is enabled on every day up to today.
calendarCellNoCreation(logs, habit, date) ==
    LET hasLog == hasLogOn(logs, getDateKey(date))
        isBeforeCreation == getTime(date) < getTime(createdAtStartOfDay(habit))
        isFuture == getTime(date) > getTime(StartOfDay(now))
        isNegative == habit.type = "negative"
        isDisabled == isBeforeCreation \/ isFuture
        showCircle == ~isDisabled /\ (isNegative \/ hasLog)
    IN  [dateKey |-> getDateKey(date), hasLog |-> hasLog,
         isBeforeCreation |-> isBeforeCreation, isFuture |-> isFuture,
         canToggle |-> ~isFuture,
         isDisabled |-> isDisabled, showCircle |-> showCircle,
         circleColor |-> IF ~showCircle THEN transparent
                         ELSE IF isNegative
                         THEN (IF hasLog THEN CRIMSON ELSE GOLD)
                         ELSE bioOrange,
         textDisabled |-> isBeforeCreation]

\* renderCalendar's cell whose press is enabled on every day from the
\* creation day on, future days included.
calendarCellNoFuture(logs, habit, date) ==
    LET hasLog == hasLogOn(logs, getDateKey(date))
        isBeforeCreation == getTime(date) < getTime(createdAtStartOfDay(habit))
        isFuture == getTime(date) > getTime(StartOfDay(now))
        isNegative == habit.type = "negative"
        isDisabled == isBeforeCreation \/ isFuture
        showCircle == ~isDisabled /\ (isNegative \/ hasLog)
    IN  [dateKey |-> getDateKey(date), hasLog |-> hasLog,
         isBeforeCreation |-> isBeforeCreation, isFuture |-> isFuture,
         canToggle |-> ~isBeforeCreation,
         isDisabled |-> isDisabled, showCircle |-> showCircle,
         circleColor |-> IF ~showCircle THEN transparent
                         ELSE IF isNegative
                         THEN (IF hasLog THEN CRIMSON ELSE GOLD)
                         ELSE bioOrange,
         textDisabled |-> isBeforeCreation]

\* renderCalendar: the cell of the day `date` (a local midnight) for the
\* habit of the screen and the logs of its details.
calendarCell(logs, habit, date) ==
    LET hasLog == hasLogOn(logs, getDateKey(date))
        isBeforeCreation == getTime(date) < getTime(createdAtStartOfDay(habit))
        isFuture == getTime(date) > getTime(StartOfDay(now))
        isNegative == habit.type = "negative"
        isDisabled == isBeforeCreation \/ isFuture
        showCircle == ~isDisabled /\ (isNegative \/ hasLog)
    IN  [dateKey |-> getDateKey(date), hasLog |-> hasLog,
         isBeforeCreation |-> isBeforeCreation, isFuture |-> isFuture,
         canToggle |-> ~isFuture /\ ~isBeforeCreation,
         isDisabled |-> isDisabled, showCircle |-> showCircle,
         circleColor |-> IF ~showCircle THEN transparent
                         ELSE IF isNegative
                         THEN (IF hasLog THEN CRIMSON ELSE GOLD)
                         ELSE bioOrange,
         textDisabled |-> isBeforeCreation]

\* The days of the calendar that are pressed.
PressedDays == (StartDay - 1)..(StartDay + MaxTicks)

\* A calendar cell is pressed: onPress={() => canToggle &&
\* handleDayPress(dateKey)} of a Pressable with disabled={!canToggle}.
handleDayPress(c) ==
    /\ details # {}
    /\ \E habit \in viewHabit, det \in details, day \in PressedDays :
          LET cell == calendarCell(det.logs, habit, [day |-> day, hour |-> 0])
          IN  /\ cell.canToggle
              /\ toggleHabit(c, "detail", viewId, cell.dateKey)

\* toggleWrite without its delete branch: a log is inserted in every case.
toggleWriteInsertOnly(c) ==
    /\ calls[c].pc = "write"
    /\ dbLogs' = dbLogs \cup {logRow(FreshLogId, calls[c].habitId,
                                     calls[c].dateKey)}
    /\ calls' = [calls EXCEPT ![c].pc = "load", ![c].logs = {}]
    /\ UNCHANGED <<focus, history, zone, now, dbHabits, storeVars, screenVars>>

\* toggleWrite with a delete by habit_id instead of by id.
toggleWriteWholeHabit(c) ==
    /\ calls[c].pc = "write"
    /\ IF calls[c].logs # {}
       THEN dbLogs' = {l \in dbLogs : l.habitId # calls[c].habitId}
       ELSE dbLogs' = dbLogs \cup {logRow(FreshLogId, calls[c].habitId,
                                          calls[c].dateKey)}
    /\ calls' = [calls EXCEPT ![c].pc = "load", ![c].logs = {}]
    /\ UNCHANGED <<focus, history, zone, now, dbHabits, storeVars, screenVars>>

\* toggleHabit: the delete of existingLogs[0] or the insert of a new log.
toggleWrite(c) ==
    /\ calls[c].pc = "write"
    /\ IF calls[c].logs # {}
       THEN \E first \in calls[c].logs : dbLogs' = {l \in dbLogs : l.id # first.id}
       ELSE dbLogs' = dbLogs \cup {logRow(FreshLogId, calls[c].habitId,
                                          calls[c].dateKey)}
    /\ calls' = [calls EXCEPT ![c].pc = "load", ![c].logs = {}]
    /\ UNCHANGED <<focus, history, zone, now, dbHabits, storeVars, screenVars>>

\* addHabit(type): the insert of newHabit.
addHabit(c) ==
    /\ CanStartFirst(c)
    /\ \E i \in 1..Len(HabitIds), type \in HabitTypes :
          /\ HabitIds[i] \notin UsedHabitIds
          /\ \A j \in 1..(i - 1) : HabitIds[j] \in UsedHabitIds
          /\ dbHabits' = dbHabits \cup {habitRow(HabitIds[i], type, now)}
          /\ Start(c, [Idle EXCEPT !.op = "addHabit", !.pc = "load",
                                   !.habitId = HabitIds[i]])
    /\ UNCHANGED <<zone, now, dbLogs, storeVars, screenVars>>

\* archiveHabit as a hard delete: the row is archived and its logs removed.
archiveHabitDropsLogs(c) ==
    /\ CanStartFirst(c)
    /\ \E h \in habits :
          /\ dbHabits' = {IF r.id = h.id THEN [r EXCEPT !.archived = TRUE] ELSE r :
                             r \in dbHabits}
          /\ dbLogs' = {l \in dbLogs : l.habitId # h.id}
          /\ Start(c, [Idle EXCEPT !.op = "archiveHabit", !.pc = "load",
                                   !.habitId = h.id])
    /\ UNCHANGED <<zone, now, storeVars, screenVars>>

\* archiveHabit(habitId): the update of the row.
archiveHabit(c) ==
    /\ CanStartFirst(c)
    /\ \E h \in habits :
          /\ dbHabits' = {IF r.id = h.id THEN [r EXCEPT !.archived = TRUE] ELSE r :
                             r \in dbHabits}
          /\ Start(c, [Idle EXCEPT !.op = "archiveHabit", !.pc = "load",
                                   !.habitId = h.id])
    /\ UNCHANGED <<zone, now, dbLogs, storeVars, screenVars>>

\* Detail screen handleDelete: deleteHabit(id), the delete of the habit's logs.
handleDelete(c) ==
    /\ CanStartFirst(c)
    /\ viewId # NoView
    /\ dbLogs' = {l \in dbLogs : l.habitId # viewId}
    /\ Start(c, [Idle EXCEPT !.op = "deleteHabit", !.pc = "deleteRow",
                             !.ui = "detail", !.habitId = viewId])
    /\ UNCHANGED <<zone, now, dbHabits, storeVars, screenVars>>

\* deleteHabit: the delete of the habit's row.
deleteRow(c) ==
    /\ calls[c].pc = "deleteRow"
    /\ dbHabits' = {r \in dbHabits : r.id # calls[c].habitId}
    /\ calls' = [calls EXCEPT ![c].pc = "load"]
    /\ UNCHANGED <<focus, history, zone, now, dbLogs, storeVars, screenVars>>

\* loadHabits() called on its own (app start, detail screen with no habits).
loadHabits(c) ==
    /\ CanStart(c)
    /\ Start(c, [Idle EXCEPT !.op = "loadHabits", !.pc = "loadLogs",
                             !.todayKey = getTodayDateKey,
                             !.rows = {r \in dbHabits : ~r.archived}])
    /\ isLoading' = TRUE
    /\ error' = {}
    /\ UNCHANGED <<zone, now, dbHabits, dbLogs, habits, version, screenVars>>

\* loadHabits() awaited by another call: set isLoading, select the habits.
loadStart(c) ==
    /\ calls[c].pc = "load"
    /\ calls' = [calls EXCEPT ![c].pc = "loadLogs",
                              ![c].todayKey = getTodayDateKey,
                              ![c].rows = {r \in dbHabits : ~r.archived}]
    /\ isLoading' = TRUE
    /\ error' = {}
    /\ UNCHANGED <<focus, history, zone, now, dbHabits, dbLogs, habits, version, screenVars>>

\* loadHabits: the select of today's logs.
loadLogs(c) ==
    /\ calls[c].pc = "loadLogs"
    /\ calls' = [calls EXCEPT ![c].pc = "set",
                              ![c].logs = {l \in dbLogs :
                                              l.dateKey = calls[c].todayKey}]
    /\ UNCHANGED <<focus, history, zone, now, dbHabits, dbLogs, storeVars, screenVars>>

\* addHabit, archiveHabit, deleteHabit: the set of version that follows the
\* awaited loadHabits.
bumpVersion(call) ==
    IF call.op \in {"addHabit", "archiveHabit", "deleteHabit"} THEN 1 ELSE 0

\* loadHabits: set habits, isLoading and version; the store call that awaited
\* it resumes at once and returns to its caller.
loadSet(c) ==
    /\ calls[c].pc = "set"
    /\ habits' = habitsWithStatusOf(calls[c].rows, calls[c].logs)
    /\ isLoading' = FALSE
    /\ version' = version + 1 + bumpVersion(calls[c])
    /\ calls' = [calls EXCEPT ![c] =
                    IF calls[c].ui = "" THEN Idle
                    ELSE [calls[c] EXCEPT !.pc = "refresh",
                                          !.rows = {}, !.logs = {}]]
    /\ UNCHANGED <<focus, history, zone, now, dbHabits, dbLogs, error, screenVars>>

\* The caller's last step: handleToggle's loadData, handleDayPress's
\* loadDetails, handleDelete's router.replace('/').
refresh(c) ==
    /\ calls[c].pc = "refresh"
    /\ calls' = [calls EXCEPT ![c] = Idle]
    /\ IF calls[c].op = "deleteHabit"
       THEN /\ viewId' = NoView
            /\ details' = {}
            /\ UNCHANGED sparklineHabits
       ELSE IF calls[c].ui = "dashboard"
       THEN /\ sparklineHabits' = habitsWithSparklineOf(dbHabits, dbLogs)
            /\ UNCHANGED <<viewId, details>>
       ELSE /\ details' = IF viewId = NoView THEN details
                          ELSE {getHabitDetails(viewId)}
            /\ UNCHANGED <<viewId, sparklineHabits>>
    /\ UNCHANGED <<focus, history, zone, now, dbHabits, dbLogs, storeVars>>

\* A card is pressed: the detail screen of the habit opens.
openDetail ==
    /\ viewId = NoView
    /\ \E h \in sparklineHabits : viewId' = h.id
    /\ details' = {}
    /\ UNCHANGED <<focus, history, zone, now, dbHabits, dbLogs, storeVars, sparklineHabits,
                   calls>>

\* handleBack: the detail screen closes.
handleBack ==
    /\ viewId # NoView
    /\ viewId' = NoView
    /\ details' = {}
    /\ UNCHANGED <<focus, history, zone, now, dbHabits, dbLogs, storeVars, sparklineHabits,
                   calls>>

\* The effect of the detail screen on [id, version].
detailEffect == viewId # NoView /\ loadDetails

\* The focus effect of the dashboard on [version], with the dashboard in front.
focusEffect == viewId = NoView /\ loadData

\* Midnight passes.
tick ==
    /\ now.day < StartDay + MaxTicks
    /\ now' = [now EXCEPT !.day = @ + 1]
    /\ UNCHANGED <<focus, history, zone, dbHabits, dbLogs, storeVars, screenVars, calls>>

Init ==
    /\ zone = [offset |-> 0, dstDay |-> StartDay, dstShift |-> 0]
    /\ now = [day |-> StartDay, hour |-> 12]
    /\ dbHabits = {}
    /\ dbLogs = {}
    /\ habits = {}
    /\ viewId = NoView
    /\ details = {}
    /\ sparklineHabits = {}
    /\ isLoading = TRUE
    /\ error = {}
    /\ version = 0
    /\ calls = [c \in Slots |-> Idle]
    /\ history = NoHistory /\ focus = FocusMounted

Next ==
    \/ \E c \in Slots :
          \/ handleToggle(c)
          \/ handleDayPress(c)
          \/ toggleWrite(c)
          \/ addHabit(c)
          \/ archiveHabit(c)
          \/ handleDelete(c)
          \/ deleteRow(c)
          \/ loadHabits(c)
          \/ loadStart(c)
          \/ loadLogs(c)
          \/ loadSet(c)
          \/ refresh(c)
    \/ openDetail
    \/ handleBack
    \/ detailEffect
    \/ focusEffect
    \/ tick

Spec == Init /\ [][Next]_vars

\* The store while habits are only added and toggled: no archiveHabit and no
\* deleteHabit.
GrowNext ==
    \/ \E c \in Slots :
          \/ handleToggle(c)
          \/ handleDayPress(c)
          \/ toggleWrite(c)
          \/ addHabit(c)
          \/ loadHabits(c)
          \/ loadStart(c)
          \/ loadLogs(c)
          \/ loadSet(c)
          \/ refresh(c)
    \/ openDetail
    \/ handleBack
    \/ detailEffect
    \/ focusEffect
    \/ tick

GrowSpec == Init /\ [][GrowNext]_vars

-----------------------------------------------------------------------------
(* The store with one call at a time, each call completing before the next  *)
(* starts, from tables an earlier session filled: the first habit with any  *)
(* type, creation day and logged days, and possibly a second habit.  The    *)
(* clock stays within one day.                                              *)

\* The store, the tables and the dashboard after loadHabits on filled tables.
SerialState ==
    /\ zone = [offset |-> 0, dstDay |-> StartDay, dstShift |-> 0]
    /\ now = [day |-> StartDay, hour |-> 12]
    /\ \E type \in HabitTypes, c \in (StartDay - MaxAge)..StartDay,
          other \in BOOLEAN :
          \E days \in SUBSET (c..StartDay) :
             /\ dbHabits =
                   {habitRow(HabitIds[1], type, [day |-> c, hour |-> 12])}
                   \cup IF other
                        THEN {habitRow(HabitIds[2], "positive",
                                       [day |-> StartDay - 1, hour |-> 12])}
                        ELSE {}
             /\ dbLogs =
                   {logRow(d, HabitIds[1], d) : d \in days}
                   \cup IF other THEN {logRow(0, HabitIds[2], StartDay)} ELSE {}
    /\ habits = habitsWithStatusOf(dbHabits,
                                   {l \in dbLogs : l.dateKey = getTodayDateKey})
    /\ sparklineHabits = habitsWithSparklineOf(dbHabits, dbLogs)
    /\ viewId = NoView
    /\ details = {}
    /\ isLoading = FALSE
    /\ error = {}
    /\ version = 1
    /\ calls = [c \in Slots |-> Idle]

SerialInit == SerialState /\ history = EmptyHistory /\ focus = FocusMounted

SerialNext ==
    \/ handleToggle(1)
    \/ handleDayPress(1)
    \/ toggleWrite(1)
    \/ addHabit(1)
    \/ archiveHabit(1)
    \/ handleDelete(1)
    \/ deleteRow(1)
    \/ loadHabits(1)
    \/ loadStart(1)
    \/ loadLogs(1)
    \/ loadSet(1)
    \/ refresh(1)
    \/ openDetail
    \/ handleBack
    \/ detailEffect
    \/ focusEffect

SerialSpec == SerialInit /\ [][SerialNext]_vars

-----------------------------------------------------------------------------
(* The calendar of the detail screen, on the engine's inputs: the days of   *)
(* the calendar are pressed, one toggle at a time.                          *)

\* The engine's short inputs: the creation day is within the calendar's days.
CalendarInit ==
    /\ EngineInit
    /\ \A h \in dbHabits : getDateKey(h.createdAt) >= Today0 - MaxAge

CalendarNext ==
    \/ detailEffect
    \/ handleDayPress(1)
    \/ toggleWrite(1)
    \/ loadStart(1)
    \/ loadLogs(1)
    \/ loadSet(1)
    \/ refresh(1)

CalendarSpec == CalendarInit /\ [][CalendarNext]_vars

-----------------------------------------------------------------------------
(* getHabitDetails for a habit of one to two weeks: the creation day is 7,  *)
(* 9 or 10 days before today, the logs are any days of the last 12; noon in *)
(* a zone without a change of offset.                                       *)

ScenarioAges == {7, 9, 10}

ScenarioInit ==
    /\ zone = [offset |-> 0, dstDay |-> Today0 - 1, dstShift |-> 0]
    /\ now = [day |-> Today0, hour |-> 12]
    /\ \E type \in HabitTypes, age \in ScenarioAges :
       \E days \in SUBSET ((Today0 - 11)..Today0) :
          /\ dbHabits = {habitRow(EngineId, type,
                                  [day |-> Today0 - age, hour |-> 12])}
          /\ dbLogs = {logRow(d, EngineId, d) : d \in days}
    /\ habits = habitsWithStatusOf(dbHabits,
                                   {l \in dbLogs : l.dateKey = getTodayDateKey})
    /\ viewId = EngineId
    /\ details = {}
    /\ sparklineHabits = {}
    /\ isLoading = FALSE
    /\ error = {}
    /\ version = 1
    /\ calls = [c \in Slots |-> Idle]
    /\ history = NoHistory /\ focus = FocusMounted

ScenarioSpec == ScenarioInit /\ [][EngineNext]_vars

-----------------------------------------------------------------------------
(* The engine over a table logs that holds one row with a date key that is  *)
(* no YYYY-MM-DD string; noon in a zone without a change of offset.         *)

MalformedKeys ==
    {Unparseable}
    \cup {Timestamp(d) : d \in (Today0 - MaxAge - 1)..(Today0 + 1)}

CorruptInit ==
    /\ zone = [offset |-> 0, dstDay |-> Today0 - 1, dstShift |-> 0]
    /\ now = [day |-> Today0, hour |-> 12]
    /\ \E type \in HabitTypes, c \in (Today0 - MaxAge)..Today0,
          bad \in MalformedKeys :
       \E days \in SUBSET ((Today0 - MaxAge - 1)..Today0) :
          /\ dbHabits = {habitRow(EngineId, type, [day |-> c, hour |-> 12])}
          /\ dbLogs = {logRow(d, EngineId, d) : d \in days}
                         \cup {logRow(1, EngineId, bad)}
    /\ habits = habitsWithStatusOf(dbHabits,
                                   {l \in dbLogs : l.dateKey = getTodayDateKey})
    /\ viewId = EngineId
    /\ details = {}
    /\ sparklineHabits = {}
    /\ isLoading = FALSE
    /\ error = {}
    /\ version = 1
    /\ calls = [c \in Slots |-> Idle]
    /\ history = NoHistory /\ focus = FocusMounted

CorruptSpec == CorruptInit /\ [][EngineNext]_vars

-----------------------------------------------------------------------------
(* The store, one call at a time, over a database whose selects can throw.  *)

\* loadHabits: a select throws and the catch sets error and isLoading; the
\* store call that awaited loadHabits resumes and returns to its caller.
loadFail(c) ==
    /\ calls[c].pc \in {"load", "loadLogs"}
    /\ error' = {"Failed to load habits"}
    /\ isLoading' = FALSE
    /\ version' = version + bumpVersion(calls[c])
    /\ calls' = [calls EXCEPT ![c] =
                    IF calls[c].ui = "" THEN Idle
                    ELSE [calls[c] EXCEPT !.pc = "refresh",
                                          !.rows = {}, !.logs = {}]]
    /\ UNCHANGED <<focus, history, zone, now, dbHabits, dbLogs, habits, screenVars>>

\* The dashboard's toggles and the store's addHabit, archiveHabit and
\* deleteHabit; the calendar is not pressed.
FailNext ==
    \/ handleToggle(1)
    \/ toggleWrite(1)
    \/ addHabit(1)
    \/ archiveHabit(1)
    \/ handleDelete(1)
    \/ deleteRow(1)
    \/ loadStart(1)
    \/ loadLogs(1)
    \/ loadSet(1)
    \/ loadFail(1)
    \/ refresh(1)
    \/ openDetail
    \/ handleBack
    \/ detailEffect
    \/ focusEffect

FailInit == SerialState /\ history = NoHistory /\ focus = FocusMounted

FailSpec == FailInit /\ [][FailNext]_vars

-----------------------------------------------------------------------------
(* The detail screen over a store whose reads can fail (store unavailable)  *)

\* What getHabitDetails returns from its catch, when the select of the
\* habit's logs throws.
getHabitDetailsFailed ==
    [logs |-> {}, currentStreak |-> 0, consistencyScore |-> 0,
     totalCompletions |-> 0]

\* loadDetails of the detail screen when the select of the logs throws:
\* getHabitDetails catches, logs to the console and returns; setDetails runs.
loadDetailsUnavailable ==
    /\ viewId # NoView
    /\ details' = {getHabitDetailsFailed}
    /\ UNCHANGED <<focus, history, zone, now, dbHabits, dbLogs, storeVars, viewId,
                   sparklineHabits, calls>>

UnavailableNext ==
    \/ openDetail
    \/ handleBack
    \/ detailEffect
    \/ loadDetailsUnavailable

UnavailableSpec == SerialInit /\ [][UnavailableNext]_vars

-----------------------------------------------------------------------------
(* The focus timer (src/app/focus.tsx).  A handler's state updates are      *)
(* committed in one render; an effect whose dependencies changed in a       *)
(* render runs as a later step; the timeout of the timer effect fires as a  *)
(* step of its own once it is scheduled.                                    *)

PRESETS == {15, 30, 60}

\* The render that commits state `new`: the effects whose dependencies
\* changed become due.
Render(new) ==
    [new EXCEPT
        !.timerEffectDue =
            \/ focus.timerEffectDue
            \/ new.isRunning # focus.isRunning
            \/ new.remainingSeconds # focus.remainingSeconds,
        !.presetEffectDue =
            \/ focus.presetEffectDue
            \/ new.selectedMinutes # focus.selectedMinutes
            \/ new.isRunning # focus.isRunning
            \/ new.isFocusMode # focus.isFocusMode]

\* A preset button of the normal screen is pressed.
selectPreset ==
    /\ ~focus.isFocusMode
    /\ \E mins \in PRESETS :
          focus' = Render([focus EXCEPT !.selectedMinutes = mins])
    /\ UNCHANGED habitVars

\* START of the normal screen is pressed.
startTimer ==
    /\ ~focus.isFocusMode
    /\ focus' = IF focus.remainingSeconds <= 0 THEN focus
                ELSE Render([focus EXCEPT !.isRunning = TRUE,
                                          !.isFocusMode = TRUE,
                                          !.isPaused = FALSE])
    /\ UNCHANGED habitVars

\* The circle of the focus screen is pressed while the timer runs.
pauseTimer ==
    /\ focus.isFocusMode /\ focus.isRunning
    /\ focus' = Render([focus EXCEPT !.isRunning = FALSE, !.isPaused = TRUE])
    /\ UNCHANGED habitVars

\* The circle of the focus screen is pressed while the timer does not run.
resumeTimer ==
    /\ focus.isFocusMode /\ ~focus.isRunning
    /\ focus' = Render([focus EXCEPT !.isRunning = TRUE, !.isPaused = FALSE])
    /\ UNCHANGED habitVars

\* stopTimer that leaves remainingSeconds as the timer left it.
stopTimerNoReset ==
    /\ focus.isFocusMode
    /\ focus' = Render([focus EXCEPT !.isRunning = FALSE, !.isFocusMode = FALSE,
                                     !.isPaused = FALSE])
    /\ UNCHANGED habitVars

\* STOP of the focus screen is pressed.
stopTimer ==
    /\ focus.isFocusMode
    /\ focus' = Render([focus EXCEPT
                    !.isRunning = FALSE, !.isFocusMode = FALSE,
                    !.isPaused = FALSE,
                    !.remainingSeconds = focus.selectedMinutes * SecondsPerMinute,
                    !.totalSeconds = focus.selectedMinutes * SecondsPerMinute])
    /\ UNCHANGED habitVars

\* The timeout of the timer effect fires: setRemainingSeconds(prev => prev - 1).
timerTick ==
    /\ focus.timer
    /\ focus' = Render([focus EXCEPT !.timer = FALSE,
                                     !.remainingSeconds = @ - 1])
    /\ UNCHANGED habitVars

\* The timer effect runs: the cleanup of its last run clears the timeout,
\* then a timeout is scheduled or the finished timer is switched off.
timerEffect ==
    /\ focus.timerEffectDue
    /\ focus' =
          IF focus.isRunning /\ focus.remainingSeconds > 0
          THEN [focus EXCEPT !.timerEffectDue = FALSE, !.timer = TRUE]
          ELSE IF focus.remainingSeconds = 0 /\ focus.isRunning
          THEN [focus EXCEPT !.timer = FALSE, !.isRunning = FALSE,
                             !.timerEffectDue = TRUE, !.presetEffectDue = TRUE]
          ELSE [focus EXCEPT !.timerEffectDue = FALSE, !.timer = FALSE]
    /\ UNCHANGED habitVars

\* The preset effect runs.
presetEffect ==
    /\ focus.presetEffectDue
    /\ focus' =
          IF ~focus.isRunning /\ ~focus.isFocusMode
          THEN [focus EXCEPT
                   !.presetEffectDue = FALSE,
                   !.remainingSeconds = focus.selectedMinutes * SecondsPerMinute,
                   !.totalSeconds = focus.selectedMinutes * SecondsPerMinute,
                   !.timerEffectDue =
                       @ \/ focus.remainingSeconds
                               # focus.selectedMinutes * SecondsPerMinute]
          ELSE [focus EXCEPT !.presetEffectDue = FALSE]
    /\ UNCHANGED habitVars

FocusNext ==
    \/ selectPreset
    \/ startTimer
    \/ pauseTimer
    \/ resumeTimer
    \/ stopTimer
    \/ timerTick
    \/ timerEffect
    \/ presetEffect

\* React runs an effect that is due.
FocusSpec == Init /\ [][FocusNext]_vars /\ WF_vars(timerEffect)

-----------------------------------------------------------------------------
(* Calendar-day notions the properties are stated in *)

viewRow == CHOOSE h \in dbHabits : h.id = viewId
creationDay == getDateKey(viewRow.createdAt)
today == getDateKey(now)
LogDays(logs) == {l.dateKey : l \in logs}

SetMax(S) == CHOOSE x \in S : \A y \in S : y <= x

\* The number of consecutive days of S that end at day e, none before day c.
RunEnding(S, e, c) ==
    IF e < c THEN 0 ELSE e - SetMax({c - 1} \cup {d \in c..e : d \notin S})

\* The days of c..e that count for a habit of the type: logged days for a
\* positive habit, days without a log for a negative one.
SuccessDays(type, logs, c, e) ==
    {d \in c..e : IF type = "negative" THEN d \notin LogDays(logs)
                                       ELSE d \in LogDays(logs)}

\* The longest run of consecutive days of S within c..e.
LongestRun(S, c, e) ==
    IF e < c THEN 0
    ELSE SetMax({0} \cup {RunEnding(S, d, c) : d \in {x \in S : x + 1 \notin S \/ x = e}})

\* `logs` with the viewed habit's log of day d added, and removed.
WithLog(logs, d) ==
    IF \E l \in logs : l.habitId = viewId /\ l.dateKey = d
    THEN logs ELSE logs \cup {logRow(d, viewId, d)}
WithoutLog(logs, d) == {l \in logs : ~(l.habitId = viewId /\ l.dateKey = d)}

\* Every value the screens compute for the viewed habit from table `logs`.
StatsOf(logs) ==
    LET det == habitDetailsOf(logs, habits, viewId) IN
    [currentStreak |-> calculateStreak({det}, viewHabit),
     longestStreak |-> longestStreak({det}, viewHabit),
     storeStreak |-> det.currentStreak,
     consistencyScore |-> det.consistencyScore,
     cardStreak |-> cardCalculateStreak(viewRow.type, sparklineOf(logs, viewRow))]

-----------------------------------------------------------------------------
(* Properties *)

\* C1: on the detail screen the longest streak is greater than or equal to
\* the current streak, for every habit type, creation day, today and logs.
C1_LongestAtLeastCurrent ==
    details # {} =>
        longestStreak(details, viewHabit) >= calculateStreak(details, viewHabit)

\* C2: a log dated before the creation day changes none of the values
\* computed for the habit (detail screen, getHabitDetails, sparkline card),
\* and a log dated on the creation day is counted by the consistency score.
C2_PreCreationLogIgnored ==
    details # {} =>
    /\ \A d \in {creationDay - 2, creationDay - 1} :
          StatsOf(WithLog(dbLogs, d)) = StatsOf(WithoutLog(dbLogs, d))
    /\ (creationDay <= today /\ today - creationDay < ScorePeriod) =>
          StatsOf(WithLog(dbLogs, creationDay)).consistencyScore
              # StatsOf(WithoutLog(dbLogs, creationDay)).consistencyScore

\* C3: for a positive habit the current streak is the number of consecutive
\* logged days ending at today when today has a log, else ending at
\* yesterday, none before the creation day, within a walk of 365 days.
C3_PositiveCurrentStreak ==
    (details # {} /\ viewRow.type = "positive") =>
        LET days == LogDays(dbLogs)
            end == IF today \in days THEN today ELSE today - 1
        IN  calculateStreak(details, viewHabit)
                = Min(RunEnding(days, end, creationDay),
                      PositiveWalk - (today - end))

C3_Witness ==
    /\ details # {} /\ viewRow.type = "positive"
    /\ today \notin LogDays(dbLogs)
    /\ today - creationDay > PositiveWalk
    /\ calculateStreak(details, viewHabit) = PositiveWalk - 1

\* C4 as stated: for a negative habit the current streak is the number of
\* consecutive days without a log ending at today, back to the creation day;
\* with one lapse k days ago and no later log it is k.
C4_NegativeCurrentStreak ==
    (details # {} /\ viewRow.type = "negative") =>
        LET clean == SuccessDays("negative", dbLogs, creationDay, today) IN
        /\ calculateStreak(details, viewHabit) = RunEnding(clean, today, creationDay)
        /\ \A k \in 1..(today - creationDay) :
              LogDays(dbLogs) = {today - k} => calculateStreak(details, viewHabit) = k

\* C4 amended: the same over a walk of at most 366 days (today and the 365
\* days before it): the streak is the smaller of that number and 366.
C4_NegativeCurrentStreakCapped ==
    (details # {} /\ viewRow.type = "negative") =>
        LET clean == SuccessDays("negative", dbLogs, creationDay, today) IN
        /\ calculateStreak(details, viewHabit)
              = Min(RunEnding(clean, today, creationDay), NegativeWalk + 1)
        /\ today \in LogDays(dbLogs) => calculateStreak(details, viewHabit) = 0
        /\ \A k \in 1..(today - creationDay) :
              LogDays(dbLogs) = {today - k} =>
                  calculateStreak(details, viewHabit) = Min(k, NegativeWalk + 1)

C4_Witness ==
    /\ details # {} /\ viewRow.type = "negative"
    /\ \E k \in 1..(today - creationDay) :
          /\ LogDays(dbLogs) = {today - k}
          /\ k > NegativeWalk + 1
          /\ calculateStreak(details, viewHabit) = NegativeWalk + 1

\* C5: for a positive habit, today without a log is skipped: the current
\* streak is the streak that ends yesterday (within the walk), and a log on
\* today raises it by exactly 1 (from 0 to 1 for a habit created today), on
\* the detail screen and on the sparkline card; for a negative habit today is
\* never skipped, so a log on today gives 0.  Today is on or after the creation day.
C5_TodayPending ==
    (details # {} /\ creationDay <= today) =>
        LET d == CHOOSE x \in details : TRUE
            off == {[d EXCEPT !.logs = WithoutLog(d.logs, today)]}
            on == {[d EXCEPT !.logs = WithLog(d.logs, today)]}
            cardOff == cardCalculateStreak(viewRow.type,
                           sparklineOf(WithoutLog(dbLogs, today), viewRow))
            cardOn == cardCalculateStreak(viewRow.type,
                          sparklineOf(WithLog(dbLogs, today), viewRow))
            run == RunEnding(LogDays(dbLogs), today - 1, creationDay)
        IN  IF viewRow.type = "positive"
            THEN /\ calculateStreak(off, viewHabit) = Min(run, PositiveWalk - 1)
                 /\ calculateStreak(on, viewHabit) = calculateStreak(off, viewHabit) + 1
                 /\ cardOff = Min(run, SparklineLen - 1)
                 /\ cardOn = cardOff + 1
                 /\ creationDay = today =>
                        /\ calculateStreak(off, viewHabit) = 0
                        /\ calculateStreak(on, viewHabit) = 1
            ELSE /\ calculateStreak(on, viewHabit) = 0
                 /\ cardOn = 0

C5_Witness ==
    /\ details # {} /\ viewRow.type = "positive"
    /\ creationDay < today
    /\ today \notin LogDays(dbLogs)
    /\ calculateStreak(details, viewHabit) = 2

\* C6 as stated: for a negative habit with no logs, for every creation day on
\* or before today, the current streak is daysSince(creationDay, today) + 1
\* and the consistency score is 100.
C6_FullAbstinence ==
    (details # {} /\ viewRow.type = "negative" /\ dbLogs = {}
        /\ creationDay <= today) =>
        /\ calculateStreak(details, viewHabit) = (today - creationDay) + 1
        /\ (CHOOSE x \in details : TRUE).consistencyScore = 100

\* C6 amended: the current streak is daysSince(creationDay, today) + 1 up to
\* the 366 days the walk covers, and 366 for an older habit; the consistency
\* score is 100.
C6_FullAbstinenceCapped ==
    (details # {} /\ viewRow.type = "negative" /\ dbLogs = {}
        /\ creationDay <= today) =>
        /\ calculateStreak(details, viewHabit)
              = Min((today - creationDay) + 1, NegativeWalk + 1)
        /\ (CHOOSE x \in details : TRUE).consistencyScore = 100

C6_Witness ==
    /\ details # {} /\ viewRow.type = "negative" /\ dbLogs = {}
    /\ (today - creationDay) + 1 > NegativeWalk + 1
    /\ calculateStreak(details, viewHabit) = NegativeWalk + 1
    /\ (CHOOSE x \in details : TRUE).consistencyScore = 100

\* C7: the longest streak is the length of the longest run of consecutive
\* success days among the days creationDay..today (logged days for a
\* positive habit, days without a log for a negative one).
C7_LongestStreak ==
    details # {} =>
        longestStreak(details, viewHabit)
            = LongestRun(SuccessDays(viewRow.type, dbLogs, creationDay, today),
                         creationDay, today)

\* C8: consistencyScore is round(100 * logsInPeriod / periodDays) for a
\* positive habit and round(100 * (periodDays - logsInPeriod) / periodDays)
\* for a negative one, with periodDays = min(30, max(1, daysSince + 1)) and
\* logsInPeriod the logged days among the last periodDays days ending today
\* that are not before the creation day.
C8_ConsistencyScore ==
    details # {} =>
        LET periodDays == Min(ScorePeriod, Max(1, (today - creationDay) + 1))
            logsInPeriod == Cardinality({d \in LogDays(dbLogs) :
                                /\ d > today - periodDays
                                /\ d >= creationDay
                                /\ d <= today})
        IN  (CHOOSE x \in details : TRUE).consistencyScore
                = IF viewRow.type = "negative"
                  THEN RoundPercent(periodDays - logsInPeriod, periodDays)
                  ELSE RoundPercent(logsInPeriod, periodDays)

\* C10: when today is before the creation day, the current streak (detail
\* screen and getHabitDetails), the longest streak and the consistency score
\* are all zero, for both habit types.
C10_ClockSkewZero ==
    (details # {} /\ today < creationDay) =>
        /\ calculateStreak(details, viewHabit) = 0
        /\ longestStreak(details, viewHabit) = 0
        /\ (CHOOSE x \in details : TRUE).currentStreak = 0
        /\ (CHOOSE x \in details : TRUE).consistencyScore = 0

\* C9: in every state the store reaches through addHabit, toggleHabit
\* (overlapping calls included), archiveHabit and deleteHabit, the
\* consistencyScore getHabitDetails returns is between 0 and 100.
C9_ScoreInRange ==
    \A d \in details : d.consistencyScore \in 0..100

\* C12: at most one log exists per (habitId, dateKey) in every state the store
\* reaches, overlapping toggleHabit calls for the same habit and day included.
C12_OneLogPerDay ==
    \A l1, l2 \in dbLogs :
        (l1.habitId = l2.habitId /\ l1.dateKey = l2.dateKey) => l1 = l2

\* C14: every stored log's habitId is the id of a stored habit, in every state
\* the store reaches, a toggleHabit that overlaps deleteHabit included.
C14_NoOrphanLog ==
    \A l \in dbLogs : \E h \in dbHabits : h.id = l.habitId

\* The logs of table `logs` for (habitId, dateKey), and all the others.
LogsOf(logs, habitId, dateKey) ==
    {l \in logs : l.habitId = habitId /\ l.dateKey = dateKey}
LogsBeside(logs, habitId, dateKey) == logs \ LogsOf(logs, habitId, dateKey)

\* Every statistic derived for habit `habitId` from table `logs` and the
\* store's list `list`.
HabitStats(habitId, logs, list) ==
    LET det == habitDetailsOf(logs, list, habitId)
        hab == {h \in list : h.id = habitId}
    IN  [currentStreak |-> calculateStreak({det}, hab),
         longestStreak |-> longestStreak({det}, hab),
         storeStreak |-> det.currentStreak,
         consistencyScore |-> det.consistencyScore,
         totalCompletions |-> det.totalCompletions,
         isCompletedToday |-> {h.isCompletedToday : h \in hab}]

\* The last store call has completed, and the one before it if any.
Completed == \A c \in Slots : calls[c].pc = "idle"

\* The last two calls were toggleHabit for the same habit and day, the first
\* of them finding no log (on, then off).
OnThenOff ==
    /\ Len(history.log) >= 2
    /\ LET n == Len(history.log)
           on == history.log[n - 1]
           off == history.log[n]
       IN  /\ on.op = "toggleHabit" /\ off.op = "toggleHabit"
           /\ on.habitId = off.habitId /\ on.dateKey = off.dateKey
           /\ LogsOf(on.dbLogs, on.habitId, on.dateKey) = {}

\* C11: after toggleHabit(habit, day) twice in sequence, on then off, the
\* habit's logged days are the original ones and every derived statistic
\* (current and longest streak, consistencyScore, totalCompletions,
\* isCompletedToday) has the value it had before the first toggle.
C11_OnThenOffRestores ==
    (Completed /\ OnThenOff) =>
        LET on == history.log[Len(history.log) - 1]
            before == {l \in on.dbLogs : l.habitId = on.habitId}
            after == {l \in dbLogs : l.habitId = on.habitId}
        IN  /\ LogDays(after) = LogDays(before)
            /\ HabitStats(on.habitId, dbLogs, habits)
                  = HabitStats(on.habitId, on.dbLogs, on.habits)

C11_Witness ==
    /\ Completed /\ OnThenOff
    /\ LET on == history.log[Len(history.log) - 1] IN
          /\ \E h \in on.habits : h.id = on.habitId
          /\ HabitStats(on.habitId, dbLogs, habits).totalCompletions > 0
          /\ on.dateKey < on.today

\* C13: a toggleHabit(habit, day) call inserts a log for (habit, day) if none
\* existed and deletes it if one existed, leaves the logs of every other
\* (habit, day) pair and all habit rows unchanged, and acts on today's date
\* key when the dashboard gives it no day.
C13_ToggleFrame ==
    (history.on /\ Len(history.log) > 0
        /\ history.log[Len(history.log)].op = "toggleHabit") =>
        LET call == history.log[Len(history.log)]
            had == LogsOf(call.dbLogs, call.habitId, call.dateKey)
            has == LogsOf(dbLogs, call.habitId, call.dateKey)
        IN  /\ dbHabits = call.dbHabits
            /\ LogsBeside(dbLogs, call.habitId, call.dateKey)
                  = LogsBeside(call.dbLogs, call.habitId, call.dateKey)
            /\ calls[1].pc = "write" => has = had
            /\ calls[1].pc # "write" =>
                  IF had = {} THEN Cardinality(has) = 1 ELSE has = {}
            /\ call.ui = "dashboard" => call.dateKey = call.today

C13_Witness ==
    /\ Completed /\ Len(history.log) > 0
    /\ LET call == history.log[Len(history.log)] IN
          /\ call.op = "toggleHabit" /\ call.ui = "detail"
          /\ call.dateKey < call.today
          /\ LogsOf(call.dbLogs, call.habitId, call.dateKey) # {}
          /\ LogsOf(dbLogs, call.habitId, call.dateKey) = {}
          /\ LogsBeside(dbLogs, call.habitId, call.dateKey) # {}

\* C15: when the read of a habit's logs fails, the caller gets an error (the
\* store's error is set) and the statistics the detail screen displayed
\* before the failure stay displayed.
C15_UnavailableKeepsStats ==
    [][(details # {} /\ loadDetailsUnavailable) =>
          (details' = details /\ error' # {})]_vars

\* C16: the currentStreak getHabitDetails returns equals the current streak
\* the detail screen computes from the same habit, logs and today, for both
\* habit types.
C16_OneStreakRule ==
    \A d \in details : d.currentStreak = calculateStreak(details, viewHabit)

\* C17: the streak of the sparkline card never exceeds the current streak of
\* the detail screen and equals it whenever that streak is at most 6; today
\* is skipped only for a positive habit without a log today, so a negative
\* habit with a log today shows 0.
C17_CardStreak ==
    \A h \in sparklineHabits :
        (details # {} /\ h.id = viewId) =>
            LET card == cardCalculateStreak(h.type, h.sparkline)
                detail == calculateStreak(details, viewHabit)
            IN  /\ card <= detail
                /\ detail <= SparklineLen - 1 => card = detail
                /\ (h.type = "negative" /\ h.sparkline[SparklineLen].hasLog
                       /\ ~h.sparkline[SparklineLen].isBeforeCreation) => card = 0

C17_Witness ==
    \E h \in sparklineHabits :
        /\ details # {} /\ h.id = viewId
        /\ calculateStreak(details, viewHabit) > SparklineLen
        /\ cardCalculateStreak(h.type, h.sparkline) = SparklineLen

\* C18: getHabitsWithSparkline returns one entry per active habit, each with
\* exactly 7 sparkline entries for the days today-6..today, oldest first,
\* where entry i has isBeforeCreation = (day < creationDay) and hasLog = (a
\* log of the habit exists for the day), whatever the habit type.
C18_Sparkline ==
    sparklineHabits # {} =>
        /\ {h.id : h \in sparklineHabits}
              = {r.id : r \in {x \in dbHabits : ~x.archived}}
        /\ \A h \in sparklineHabits :
              /\ Len(h.sparkline) = SparklineLen
              /\ \A i \in 1..SparklineLen :
                    LET day == today - (SparklineLen - i) IN
                    /\ h.sparkline[i].isBeforeCreation
                          = (day < getDateKey(h.createdAt))
                    /\ h.sparkline[i].hasLog
                          = (\E l \in dbLogs :
                                l.habitId = h.id /\ l.dateKey = day)

C18_Witness ==
    \E h \in sparklineHabits :
        /\ h.sparkline[SparklineLen - 2].isBeforeCreation
        /\ ~h.sparkline[SparklineLen - 1].isBeforeCreation
        /\ h.sparkline[SparklineLen - 1].hasLog
        /\ ~h.sparkline[SparklineLen].hasLog

\* C19: the rolling-average series has rangeDays entries (30, 90 or 180),
\* oldest first and ending today; the entry of day d is the number of days
\* of d-6..d that have a log, over 7, so it lies in 0..1; the habit type
\* and the creation day play no part.
C19_RollingAverage ==
    \A det \in details, rangeDays \in RangeDays :
        LET series == chartData(details, rangeDays) IN
        /\ Len(series) = rangeDays
        /\ \A k \in 1..rangeDays :
              LET d == today - (rangeDays - k) IN
              /\ series[k].den = 7
              /\ series[k].num
                    = Cardinality(((d - 6)..d) \cap LogDays(det.logs))
              /\ 0 <= series[k].num /\ series[k].num <= series[k].den

\* The days of the calendar that are looked at.
CalendarDays == (Today0 - MaxAge - 1)..(Today0 + 2)

\* The classes of a calendar cell.
ClassesOf(cell) ==
    (IF cell.isBeforeCreation THEN {"before-creation"} ELSE {})
    \cup (IF cell.isFuture THEN {"future"} ELSE {})
    \cup (IF cell.canToggle
          THEN {IF (cell.circleColor = CRIMSON) \/ ~cell.showCircle
                THEN "miss" ELSE "success"}
          ELSE {})

\* The class of the day `day` by the rule: before creation, future, or, for
\* an eligible day, success or miss by habit type and log presence.
ClassOf(type, logDays, c, e, day) ==
    IF day < c THEN "before-creation"
    ELSE IF day > e THEN "future"
    ELSE IF (type = "negative") = (day \in logDays) THEN "miss"
    ELSE "success"

C20_Classes ==
    \A det \in details, habit \in viewHabit, day \in CalendarDays :
        LET cell == calendarCell(det.logs, habit, [day |-> day, hour |-> 0])
            c == getDateKey(habit.createdAt)
        IN  /\ ClassesOf(cell)
                  = {ClassOf(habit.type, LogDays(det.logs), c, today, day)}
            /\ cell.canToggle <=> (c <= day /\ day <= today)
            /\ cell.isDisabled <=> ~cell.canToggle
            /\ cell.canToggle =>
                  cell.circleColor =
                      IF habit.type = "negative"
                      THEN (IF day \in LogDays(det.logs) THEN CRIMSON ELSE GOLD)
                      ELSE (IF day \in LogDays(det.logs) THEN bioOrange
                            ELSE transparent)
            /\ ~cell.canToggle => cell.circleColor = transparent

\* A step that changes the logs changes them on eligible days only.
C20_PressStep ==
    \A l \in (dbLogs \ dbLogs') \cup (dbLogs' \ dbLogs) :
        /\ l.habitId = viewId
        /\ creationDay <= l.dateKey /\ l.dateKey <= today

\* C20: in the monthly calendar every day falls in exactly one class
\* (before creation, future, or for an eligible day success or miss by habit
\* type and log presence); a day is toggle-enabled if and only if
\* creationDay <= day <= today; pressing a day that is before creation or in
\* the future never changes the logs.
C20_Calendar == []C20_Classes /\ [][C20_PressStep]_vars

\* The habit was created today, so the calendar has a day before creation
\* and a future day; today was pressed and shows the log the press inserted.
C20_Witness ==
    /\ creationDay = today
    /\ calls[1].pc = "idle"
    /\ \E det \in details : \E l \in det.logs :
          l.dateKey = today /\ l.id < Today0 - MaxAge - 1

\* The logged days of the period creationDay..today.
LoggedInPeriod == {d \in LogDays(dbLogs) : creationDay <= d /\ d <= today}

C22_PositiveNoLogs ==
    (details # {} /\ viewRow.type = "positive" /\ dbLogs = {}) =>
        /\ calculateStreak(details, viewHabit) = 0
        /\ longestStreak(details, viewHabit) = 0
        /\ \A d \in details : d.currentStreak = 0 /\ d.consistencyScore = 0

C22_Witness ==
    /\ details # {} /\ viewRow.type = "positive" /\ dbLogs = {}
    /\ creationDay < today
    /\ zone.offset # 0

\* The ids of the active habits of table habits.
ActiveIds(rows) == {r.id : r \in {x \in rows : ~x.archived}}

\* C23: archiveHabit(h) leaves all logs (those of h included) unchanged and
\* removes only h from the active views: after it completes h is absent
\* from the store's habits list and from getHabitsWithSparkline, and every
\* other habit is still listed.
C23_ArchiveFrame ==
    (history.on /\ Len(history.log) > 0
        /\ history.log[Len(history.log)].op = "archiveHabit") =>
        LET call == history.log[Len(history.log)]
            others == ActiveIds(call.dbHabits) \ {call.habitId}
        IN  /\ dbLogs = call.dbLogs
            /\ Completed =>
                  /\ {h.id : h \in habits} = others
                  /\ {h.id : h \in habitsWithSparklineOf(dbHabits, dbLogs)}
                        = others

C23_Witness ==
    /\ Completed /\ Len(history.log) > 0
    /\ LET call == history.log[Len(history.log)] IN
          /\ call.op = "archiveHabit"
          /\ \E l \in dbLogs : l.habitId = call.habitId
          /\ habits # {}
          /\ call.habitId \notin {h.id : h \in habits}

\* The rows of table logs that carry a YYYY-MM-DD key.
WellFormedLogs == {l \in dbLogs : WellFormed(l.dateKey)}

\* C24: a stored log whose dateKey is malformed is skipped: getHabitDetails
\* and the streak computations give the current streak, longest streak and
\* consistency score of the remaining well-formed logs.
C24_MalformedSkipped ==
    details # {} =>
        LET with == StatsOf(dbLogs)
            without == StatsOf(WellFormedLogs)
        IN  /\ with.currentStreak = without.currentStreak
            /\ with.longestStreak = without.longestStreak
            /\ with.storeStreak = without.storeStreak
            /\ with.consistencyScore = without.consistencyScore
            /\ \A d \in details : d.consistencyScore = without.consistencyScore

\* C25: whenever no store call is in flight, each habit of the store's list
\* has isCompletedToday = TRUE if and only if table logs holds a log of that
\* habit for today's date key; this holds too after overlapping toggleHabit
\* and loadHabits calls have all completed, in whatever order their reads
\* and writes resolved.
C25_CompletedToday ==
    Completed =>
        \A h \in habits :
            h.isCompletedToday
                <=> (\E l \in dbLogs :
                        l.habitId = h.id /\ l.dateKey = getTodayDateKey)

\* C26: starting from an empty store with a clock that only moves forward,
\* after any sequence of addHabit, calendar-day presses on the detail screen
\* and toggle-today actions from the dashboard, every stored log's day d
\* satisfies creationDay(habit) <= d <= today.
C26_LogsEligible ==
    \A l \in dbLogs, r \in dbHabits :
        r.id = l.habitId =>
            getDateKey(r.createdAt) <= l.dateKey /\ l.dateKey <= getTodayDateKey

\* The habit of the detail screen, created yesterday, carries a log on its
\* creation day.
C26_Witness ==
    /\ viewId # NoView
    /\ \E l \in dbLogs, r \in dbHabits :
          /\ r.id = l.habitId /\ r.id = viewId
          /\ l.dateKey = getDateKey(r.createdAt)
          /\ l.dateKey < getTodayDateKey

\* The consistencyScore getHabitDetails computes for the viewed habit's
\* creation day, today and logs, were the habit of type `type`.
ScoreAs(type) ==
    consistencyScoreOf({l \in dbLogs : l.habitId = viewId},
                       {[h EXCEPT !.type = type] : h \in viewHabit})

\* C27: for the same creation day, today and log set, the consistencyScore
\* of a positive habit and the consistencyScore (abstinence) of a negative
\* habit sum to exactly 100.
C27_ScoresSumTo100 ==
    details # {} => ScoreAs("positive") + ScoreAs("negative") = 100

\* C27, amended: the two scores sum to 100, except when 100 * logsInPeriod /
\* periodDays lies exactly halfway between two integers: then both are
\* rounded up and the sum is 101.
C27_ScoresSumRounded ==
    details # {} =>
        LET p == periodDaysOf(viewHabit)
            k == logsInPeriodOf({l \in dbLogs : l.habitId = viewId}, viewHabit)
        IN  ScoreAs("positive") + ScoreAs("negative")
                = IF (200 * k) % (2 * p) = p THEN 101 ELSE 100

C27_Witness ==
    /\ details # {}
    /\ ScoreAs("positive") = 13
    /\ ScoreAs("negative") = 88

\* The eligible days without a log that are marked: those next to today, to
\* the creation day and to the ends of the 30-day period and of the walks.
MarkedDays ==
    {d \in creationDay..today :
        /\ d \notin LogDays(dbLogs)
        /\ \/ today - d <= MaxAge + 1
           \/ d - creationDay <= 1
           \/ today - d \in LongAges}

\* C28: marking one more eligible day (creationDay <= day <= today) as
\* logged never decreases a positive habit's current streak, longest streak
\* or consistencyScore, and never increases a negative habit's.
C28_Monotone ==
    details # {} =>
        \A day \in MarkedDays :
            LET before == StatsOf(dbLogs)
                after == StatsOf(WithLog(dbLogs, day))
            IN  IF viewRow.type = "positive"
                THEN /\ after.currentStreak >= before.currentStreak
                     /\ after.longestStreak >= before.longestStreak
                     /\ after.consistencyScore >= before.consistencyScore
                ELSE /\ after.currentStreak <= before.currentStreak
                     /\ after.longestStreak <= before.longestStreak
                     /\ after.consistencyScore <= before.consistencyScore

\* Marking a day raises all three values of a positive habit.
C28_Witness ==
    /\ details # {} /\ viewRow.type = "positive"
    /\ \E day \in MarkedDays :
          LET before == StatsOf(dbLogs)
              after == StatsOf(WithLog(dbLogs, day))
          IN  /\ after.currentStreak > before.currentStreak
              /\ after.longestStreak > before.longestStreak
              /\ after.consistencyScore > before.consistencyScore
              /\ day < today

\* A step that completes a store call that changed table habits or table
\* logs: toggleHabit, addHabit, archiveHabit or deleteHabit returns.
CompletesMutation ==
    /\ calls[1].op \in {"toggleHabit", "addHabit", "archiveHabit", "deleteHabit"}
    /\ calls[1].pc \in {"load", "loadLogs", "set"}
    /\ calls'[1].pc \in {"idle", "refresh"}

\* C29: the store's version never decreases, and every toggleHabit,
\* addHabit, archiveHabit or deleteHabit call that changed the stored habits
\* or logs has strictly increased version by the time it completes.
C29_VersionAdvances ==
    [][/\ version' >= version
       /\ CompletesMutation => version' > version]_vars

\* The state part of C30.
C30_TimerState ==
    /\ ~(focus.isRunning /\ focus.isPaused)
    /\ focus.isRunning => focus.isFocusMode
    /\ focus.isPaused => focus.isFocusMode
    /\ 0 <= focus.remainingSeconds
    /\ focus.remainingSeconds <= focus.totalSeconds
    /\ (focus.isRunning /\ focus.remainingSeconds = 0) => focus.timerEffectDue

\* The step part of C30: the timer effect switches a finished timer off and
\* keeps focus mode on; focus mode goes off only by stopTimer's reset.
C30_TimerStep ==
    /\ (timerEffect /\ focus.isRunning /\ focus.remainingSeconds = 0) =>
          (~focus'.isRunning /\ focus'.isFocusMode)
    /\ (focus.isFocusMode /\ ~focus'.isFocusMode) =>
          /\ focus'.remainingSeconds
                = focus.selectedMinutes * SecondsPerMinute
          /\ focus'.totalSeconds = focus'.remainingSeconds
          /\ focus'.selectedMinutes = focus.selectedMinutes
          /\ ~focus'.isRunning /\ ~focus'.isPaused

\* C30: in every reachable state of the focus timer, under any sequence of
\* preset selection, start, pause, resume, stop and one-second ticks,
\* isRunning and isPaused are never both true, each of them implies focus
\* mode is on, and 0 <= remainingSeconds <= totalSeconds; when
\* remainingSeconds reaches 0 while running, isRunning becomes false and
\* focus mode stays on until stop is pressed, which resets remainingSeconds
\* to selectedMinutes * 60.
C30_FocusTimer ==
    /\ []C30_TimerState
    /\ [][C30_TimerStep]_vars
    /\ (focus.isRunning /\ focus.remainingSeconds = 0) ~> ~focus.isRunning

\* A finished timer: the effect has switched it off, focus mode is on.
C30_Witness ==
    /\ focus.remainingSeconds = 0
    /\ ~focus.isRunning /\ ~focus.isPaused
    /\ focus.isFocusMode
    /\ ~focus.timerEffectDue

====
